---- MODULE Spec2Model ----
(***************************************************************************)
(* Model of the multi-provider geospatial resolution code of the          *)
(* Smart-Emergency-Response-Predictor:                                     *)
(*   GeocodingAPI  (src/create_geocoding.py, the text of geocoding_api.py) *)
(*   RoutingAPI    (src/api/routing_api.py)                                *)
(*   WeatherAPI    (src/api/weather_api.py)                                *)
(*                                                                         *)
(* Units.  The wall clock counts ticks, TicksPerSecond ticks to a second.  *)
(* Route distances are integers in 1/1000 km, route durations integers in  *)
(* 1/600 minute,  so that the scalings of the code (x1.3, x1.2, x(1+0.1i), *)
(* x(1+0.15i)) and its roundings are exact integer arithmetic.             *)
(***************************************************************************)
EXTENDS Integers, Sequences, FiniteSets, TLC

VARIABLES
    env,        \* the process environment read by os.getenv
    geo,        \* the GeocodingAPI object
    routing,    \* the RoutingAPI object
    weather,    \* the WeatherAPI object
    now,        \* time.time(), in ticks
    lastCall,   \* per provider: when its latest outbound request was sent
    call,       \* the latest completed call: operation, inputs, events, result
    pc,         \* per concurrent caller: its position inside _rate_limit
    local,      \* per concurrent caller: the locals of _rate_limit
    rng,        \* the state of the process-wide generator of module random
    seen        \* an earlier simulated weather result, kept for comparison

vars == <<env, geo, routing, weather, now, lastCall, call, pc, local, rng, seen>>

-----------------------------------------------------------------------------
(* Bounds of the model *)

TicksPerSecond == 2
MaxTime == 5
MaxLatency == 1
MaxAlternatives == 4
MaxResponders == 3
MaxDistance == 3
MaxDays == 1
MaxHours == 1
MaxPoints == 2
MaxWaypoints == 3

-----------------------------------------------------------------------------
(* Python values *)

\* None as a returned value, and an exception leaving a function
None == [type |-> "None"]
Raise == [type |-> "raise"]

\* None where a string is expected (an api_key argument that is not given)
NoneStr == "<None>"

\* truth value of an optional string
Truthy(v) == v # NoneStr /\ v # ""

\* Python's  a or b
Or(a, b) == IF Truthy(a) THEN a ELSE b

Min(a, b) == IF a <= b THEN a ELSE b
Max(a, b) == IF a >= b THEN a ELSE b

\* dict.get(key, default) and  key in dict
Get(d, key, default) == IF key \in DOMAIN d THEN d[key] ELSE default

-----------------------------------------------------------------------------
(* Module random: one generator for the whole process, a deterministic     *)
(* function of its seed and of the number of values drawn since.  Its      *)
(* state space is scaled down to Modulus states; a state g stands for the  *)
(* value g / Modulus of random.random().                                   *)

Modulus == 6
Generators == 0..(Modulus - 1)

\* random.seed(a): the state the generator is put in
random_seed(a) == a % Modulus

\* the state after k values have been drawn from state g
Advance(g, k) == (g + k) % Modulus

\* random.uniform(a, b) = a + (b - a) * random(), in the units of a and b
uniform(g, a, b) == a + ((b - a) * g) \div Modulus

\* random.randint(a, b): both ends can come out
randint(g, a, b) == a + ((b - a) * g) \div (Modulus - 1)

\* random.choice(seq)
choice(g, seq) == seq[1 + (Len(seq) * g) \div Modulus]

\* random.choices(population, weights=weights)[0], weights in percent
RECURSIVE choices_from(_, _, _, _)
choices_from(population, weights, r, i) ==
    IF i = Len(population) \/ r < weights[i] THEN population[i]
    ELSE choices_from(population, weights, r - weights[i], i + 1)

choices(g, population, weights) ==
    choices_from(population, weights, (100 * g) \div Modulus, 1)

-----------------------------------------------------------------------------
(* Credentials and the environment *)

Unset == "<unset>"

EnvVars == {"GOOGLE_GEOCODING_API_KEY", "OPENCAGE_API_KEY",
            "GOOGLE_MAPS_API_KEY", "OPENROUTE_API_KEY", "OPENWEATHER_API_KEY"}

Placeholder(var) == "YOUR_" \o var \o "_HERE"

\* os.getenv(var, default)
getenv(var, default) == IF env[var] = Unset THEN default ELSE env[var]

-----------------------------------------------------------------------------
(* The network: what a provider answers to one request.                    *)
(*   timeout        requests raises (timeout, connection error)            *)
(*   http_error     a status code other than 200                           *)
(*   status_not_ok  200, and the provider's own status field is not OK     *)
(*   empty_results  200, and an empty result list                          *)
(*   malformed      200, and a body without the fields the adapter reads   *)
(*   ok             200, and a complete first result                       *)

GeoProviders == <<"google", "opencage", "nominatim">>
GeoProviderSet == {"google", "opencage", "nominatim"}

Responses(p) ==
    IF p = "google"
    THEN {"timeout", "http_error", "status_not_ok", "empty_results", "malformed", "ok"}
    ELSE {"timeout", "http_error", "empty_results", "malformed", "ok"}

GeoResponses == {r \in [GeoProviderSet -> Responses("google")] :
                    \A p \in GeoProviderSet : r[p] \in Responses(p)}

Latencies == [GeoProviderSet -> 0..MaxLatency]

Never == 0 - 1

Event(ev, who, info) == [ev |-> ev, who |-> who, info |-> info]

-----------------------------------------------------------------------------
(* GeocodingAPI *)

GeocodingAPI(google_key, opencage_key) ==
    LET gk == Or(google_key, getenv("GOOGLE_GEOCODING_API_KEY",
                                    Placeholder("GOOGLE_GEOCODING_API_KEY")))
        ok == Or(opencage_key, getenv("OPENCAGE_API_KEY",
                                      Placeholder("OPENCAGE_API_KEY")))
    IN  [google_key |-> gk,
         opencage_key |-> ok,
         google_enabled |->
             gk \notin {Placeholder("GOOGLE_GEOCODING_API_KEY"), NoneStr, ""},
         opencage_enabled |->
             ok \notin {Placeholder("OPENCAGE_API_KEY"), NoneStr, ""},
         nominatim_enabled |-> TRUE,
         last_request_time |-> 0,
         min_request_interval |-> 1 * TicksPerSecond]

\* _rate_limit keeping current_time, read before the sleep, as the timestamp
_rate_limit_early(t) ==
    LET current_time == t
        time_since_last_request == current_time - geo.last_request_time
        woke == IF time_since_last_request < geo.min_request_interval
                THEN t + (geo.min_request_interval - time_since_last_request)
                ELSE t
    IN  [t |-> woke, last_request_time |-> current_time]

\* _rate_limit run by a single caller, from clock value t: the clock and the
\* timestamp it leaves
_rate_limit(t) ==
    LET current_time == t
        time_since_last_request == current_time - geo.last_request_time
        woke == IF time_since_last_request < geo.min_request_interval
                THEN t + (geo.min_request_interval - time_since_last_request)
                ELSE t
    IN  [t |-> woke, last_request_time |-> woke]

_geocode_google(kind) ==
    CASE kind \in {"timeout", "malformed"} -> Raise
      [] kind \in {"http_error", "status_not_ok", "empty_results"} -> None
      [] kind = "ok" -> [type |-> "geocode", payload |-> "google",
                         confidence |-> "high"]

_geocode_opencage(kind) ==
    CASE kind \in {"timeout", "malformed"} -> Raise
      [] kind \in {"http_error", "empty_results"} -> None
      [] kind = "ok" -> [type |-> "geocode", payload |-> "opencage",
                         confidence |-> "numeric"]

_geocode_nominatim(kind) ==
    CASE kind \in {"timeout", "malformed"} -> Raise
      [] kind \in {"http_error", "empty_results"} -> None
      [] kind = "ok" -> [type |-> "geocode", payload |-> "nominatim",
                         confidence |-> "medium"]

_reverse_geocode_google(kind) ==
    CASE kind \in {"timeout", "malformed"} -> Raise
      [] kind \in {"http_error", "status_not_ok", "empty_results"} -> None
      [] kind = "ok" -> [type |-> "reverse", payload |-> "google",
                         formatted_address |-> "address"]

_reverse_geocode_opencage(kind) ==
    CASE kind \in {"timeout", "malformed"} -> Raise
      [] kind \in {"http_error", "empty_results"} -> None
      [] kind = "ok" -> [type |-> "reverse", payload |-> "opencage",
                         formatted_address |-> "address"]

\* Nominatim's reverse adapter reads every field with a default: a 200 answer
\* without an address still gives a record, of empty strings
_reverse_geocode_nominatim(kind) ==
    CASE kind \in {"timeout", "malformed"} -> Raise
      [] kind = "http_error" -> None
      [] kind = "empty_results" -> [type |-> "reverse", payload |-> "nominatim",
                                    formatted_address |-> ""]
      [] kind = "ok" -> [type |-> "reverse", payload |-> "nominatim",
                         formatted_address |-> "address"]

geocode_func(p, kind) ==
    CASE p = "google" -> _geocode_google(kind)
      [] p = "opencage" -> _geocode_opencage(kind)
      [] p = "nominatim" -> _geocode_nominatim(kind)

\* One outbound request to geocoding provider p at clock value st.t, answered
\* after latency ticks
Request(st, p, kind, latency) ==
    [st EXCEPT
        !.t = st.t + latency,
        !.trace = Append(st.trace, Event("request", p, kind)),
        !.lastCall = [st.lastCall EXCEPT ![p] = st.t]]

Emit(st, who, msg) ==
    [st EXCEPT !.trace = Append(st.trace, Event("print", who, msg))]

\* the state a geocoding request starts from, once _rate_limit has returned
AfterRateLimit ==
    LET rl == _rate_limit(now)
    IN  [t |-> rl.t,
         last_request_time |-> rl.last_request_time,
         trace |-> <<Event("rate_limit", "", "")>>,
         lastCall |-> lastCall,
         result |-> None]

\* with a dict: result['provider'] = provider_name
Tagged(result, provider_name) ==
    [k \in DOMAIN result \cup {"provider"} |->
        IF k = "provider" THEN provider_name ELSE result[k]]

\* the list  providers  built by geocode
EnabledGeoProviders ==
    SelectSeq(GeoProviders,
              LAMBDA p : \/ p = "google" /\ geo.google_enabled
                         \/ p = "opencage" /\ geo.opencage_enabled
                         \/ p = "nominatim" /\ geo.nominatim_enabled)

\* geocode_loop without its try/except: a provider's exception leaves geocode
RECURSIVE geocode_loop_uncaught(_, _, _, _)
geocode_loop_uncaught(st, providers, resp, lat) ==
    IF providers = <<>>
    THEN [Emit(st, "", "Could not geocode") EXCEPT !.result = None]
    ELSE LET provider_name == Head(providers)
             sent == Request(st, provider_name, resp[provider_name],
                             lat[provider_name])
             result == geocode_func(provider_name, resp[provider_name])
         IN  IF result = Raise
             THEN [sent EXCEPT !.result = Raise]
             ELSE IF result # None
             THEN [sent EXCEPT !.result = Tagged(result, provider_name)]
             ELSE geocode_loop_uncaught(sent, Tail(providers), resp, lat)

\* the loop of geocode over  providers
RECURSIVE geocode_loop(_, _, _, _)
geocode_loop(st, providers, resp, lat) ==
    IF providers = <<>>
    THEN [Emit(st, "", "Could not geocode") EXCEPT !.result = None]
    ELSE LET provider_name == Head(providers)
             sent == Request(st, provider_name, resp[provider_name],
                             lat[provider_name])
             result == geocode_func(provider_name, resp[provider_name])
         IN  IF result = Raise
             THEN geocode_loop(Emit(sent, provider_name, "geocoding failed"),
                               Tail(providers), resp, lat)
             ELSE IF result # None
             THEN [sent EXCEPT !.result = Tagged(result, provider_name)]
             ELSE geocode_loop(sent, Tail(providers), resp, lat)

geocode(resp, lat) ==
    geocode_loop(AfterRateLimit, EnabledGeoProviders, resp, lat)

\* try: return adapter(...)  except: pass  -- the value returned, or Raise
\* swallowed when the adapter raised
reverse_geocode(resp, lat) ==
    LET s0 == AfterRateLimit
        g == IF geo.google_enabled
             THEN [Request(s0, "google", resp["google"], lat["google"])
                      EXCEPT !.result = _reverse_geocode_google(resp["google"])]
             ELSE [s0 EXCEPT !.result = Raise]
        o == IF geo.opencage_enabled
             THEN [Request(g, "opencage", resp["opencage"], lat["opencage"])
                      EXCEPT !.result = _reverse_geocode_opencage(resp["opencage"])]
             ELSE [g EXCEPT !.result = Raise]
        n == [Request(o, "nominatim", resp["nominatim"], lat["nominatim"])
                 EXCEPT !.result = _reverse_geocode_nominatim(resp["nominatim"])]
    IN  IF g.result # Raise THEN g
        ELSE IF o.result # Raise THEN o
        ELSE IF n.result # Raise THEN n
        ELSE [n EXCEPT !.result = None]

-----------------------------------------------------------------------------
(* RoutingAPI *)

\* distances are integers in 1/1000 km (metres), durations integers in
\* 1/600 minute (tenths of a second), a clock tick is half a second
PerKm == 10 * 100
PerMinute == 10 * 60
PerTick == 10 \div TicksPerSecond

\* the integer nearest to num/den, ties to the even one (Python's round)
Round(num, den) ==
    LET q == num \div den
        r == num % den
    IN  IF 2 * r < den THEN q
        ELSE IF 2 * r > den THEN q + 1
        ELSE IF q % 2 = 0 THEN q ELSE q + 1

RoutingServices == {"google", "openroute", "mapbox"}

RoutingAPI(service, api_key) ==
    LET key == CASE service = "google" ->
                      Or(api_key, getenv("GOOGLE_MAPS_API_KEY",
                                         Placeholder("GOOGLE_MAPS_API_KEY")))
                 [] service = "openroute" ->
                      Or(api_key, getenv("OPENROUTE_API_KEY",
                                         Placeholder("OPENROUTE_API_KEY")))
                 [] OTHER -> NoneStr
    IN  [service |-> service,
         api_key |-> key,
         enabled |-> key \notin {Placeholder("GOOGLE_MAPS_API_KEY"),
                                 Placeholder("OPENROUTE_API_KEY"), NoneStr}]

\* what the provider sends for a path: the Encoded Polyline Algorithm.  A
\* value goes out as its 5-bit chunks, the low ones first, each one with
\* 0x20 set when another follows, and 63 added
RECURSIVE encode_chunks(_)
encode_chunks(u) ==
    IF u >= 32 THEN <<(32 + (u % 32)) + 63>> \o encode_chunks(u \div 32)
    ELSE <<u + 63>>

\* a signed value: shifted left by one bit, and inverted when negative
encode_value(v) == encode_chunks(IF v < 0 THEN (0 - 2 * v) - 1 ELSE 2 * v)

\* the points from i on, each as its difference from the one before
RECURSIVE encode_from(_, _, _, _)
encode_from(path, i, lat, lng) ==
    IF i > Len(path) THEN <<>>
    ELSE encode_value(path[i][1] - lat) \o encode_value(path[i][2] - lng)
         \o encode_from(path, i + 1, path[i][1], path[i][2])

Encode(path) == encode_from(path, 1, 0, 0)

\* the path of a provider's route, in 1/100000 degree
Geometry == <<<<3850000, 0 - 12020000>>, <<4070000, 0 - 12095000>>>>

\* what the routing provider answers: the kind of answer and, for a complete
\* answer, the leg's distance (m), duration (s) and duration in traffic (s,
\* or Never when the field is absent), the route's geometry (OpenRouteService
\* sends it as a list, Google as its encoded polyline) and the number of
\* characters the polyline text lacks at its end
RouteKinds == {"timeout", "http_error", "status_not_ok", "empty_results",
               "malformed", "ok"}
RouteAnswers ==
    [kind : RouteKinds \ {"ok"}, metres : {0}, seconds : {0}, traffic : {Never},
     geometry : {<<>>}, cut : {0}]
    \cup [kind : {"ok"}, metres : {1500}, seconds : {120},
          traffic : {Never, 90, 150}, geometry : {Geometry}, cut : {0}]
    \cup [kind : {"ok"}, metres : {1500}, seconds : {120}, traffic : {Never},
          geometry : {<<>>}, cut : {0}]
    \cup [kind : {"ok"}, metres : {1500}, seconds : {120}, traffic : {Never},
          geometry : {Geometry}, cut : {1}]

\* route['overview_polyline']['points'] of an answer
overview_polyline(net) ==
    SubSeq(Encode(net.geometry), 1, Len(Encode(net.geometry)) - net.cut)

\* straight-line distances (m) that _haversine_distance may return
DistanceStep == 1270
Distances == {k * DistanceStep : k \in 0..MaxDistance}

\* Python's float, scaled down: a value keeps MantissaBits significant bits
\* and an operation returns the float nearest to its exact result, ties to
\* the even one.  Coordinates are integers in a unit of which the jitter
\* bound 0.001 degree is JitterBound; the fraction t is counted in 1/TUnit.
MantissaBits == 6
JitterBound == 16
TUnit == 2 ^ MantissaBits

Abs(x) == IF x < 0 THEN 0 - x ELSE x

\* the spacing of the floats around num/den
RECURSIVE Ulp(_, _, _)
Ulp(a, den, u) ==
    IF a < (2 ^ MantissaBits) * u * den THEN u ELSE Ulp(a, den, 2 * u)

\* the float nearest to num/den
Float(num, den) ==
    LET u == Ulp(Abs(num), den, 1) IN u * Round(num, den * u)

\* one coordinate of point i of the path: start + t * (end - start), and
\* for an interior point the jitter drawn in state g added to it
interpolate(start, end, i, num_points, g) ==
    LET t == Float(i * TUnit, num_points)
        x == Float(start + Float(t * Float(end - start, 1), TUnit), 1)
    IN  IF 0 < i /\ i < num_points
        THEN Float(x + uniform(g, 0 - JitterBound, JitterBound), 1)
        ELSE x

\* for i in range(num_points + 1)
path_indices(num_points) == 0..num_points

\* the values drawn for a path: two for every i with 0 < i < num_points
jitter_draws(num_points) ==
    2 * Cardinality({i \in path_indices(num_points) : 0 < i /\ i < num_points})

\* _interpolate_path started with the generator in state g: the path and the
\* state the generator is left in
_interpolate_path(start_coords, end_coords, num_points, g) ==
    [path |-> [k \in 1..Cardinality(path_indices(num_points)) |->
                  <<interpolate(start_coords[1], end_coords[1], k - 1,
                                num_points, Advance(g, 2 * (k - 2))),
                    interpolate(start_coords[2], end_coords[2], k - 1,
                                num_points, Advance(g, 2 * (k - 2) + 1))>>],
     rng |-> Advance(g, jitter_draws(num_points))]

\* _get_simulated_route with the number of waypoints rounded to the nearest
_get_simulated_route_rounded(d, g) ==
    LET num_waypoints == Max(5, Round(2 * d, PerKm))
    IN  [route |-> [distance |-> 10 * Round(13 * d, 100),
                    duration |-> 60 * Round(39 * d, 2000),
                    duration_in_traffic |-> 60 * Round(117 * d, 5000),
                    coordinates |-> Cardinality(path_indices(num_waypoints)),
                    steps |-> <<"Head to emergency location">>,
                    service |-> "simulated",
                    simulated |-> TRUE],
         rng |-> Advance(g, jitter_draws(num_waypoints))]

\* the endpoints of a route are known by their straight-line distance d; of
\* the path of a simulated route the number of points is kept.
\* num_waypoints = max(5, int(distance_km * 2)): int() drops the fraction
_get_simulated_route(d, g) ==
    LET \* road_distance = 1.3 d km; duration_minutes = road_distance / 40 * 60
        num_waypoints == Max(5, (2 * d) \div PerKm)
    IN  [route |-> [distance |-> 10 * Round(13 * d, 100),
                    duration |-> 60 * Round(39 * d, 2000),
                    duration_in_traffic |-> 60 * Round(117 * d, 5000),
                    coordinates |-> Cardinality(path_indices(num_waypoints)),
                    steps |-> <<"Head to emergency location">>,
                    service |-> "simulated",
                    simulated |-> TRUE],
         rng |-> Advance(g, jitter_draws(num_waypoints))]

\* an encoded polyline is the sequence of the codes (ord) of its characters;
\* a decoded coordinate lat / 1e5 is kept as the integer lat, a number of
\* 1/100000 degree

\* one inner loop of _decode_polyline: the chunks of one value from position
\* index (counted from 0) on; failed when it reads past the end of the string
RECURSIVE read_chunks(_, _, _, _)
read_chunks(polyline_str, index, shift, result) ==
    IF index >= Len(polyline_str)
    THEN [failed |-> TRUE, result |-> result, index |-> index]
    ELSE LET b == polyline_str[index + 1] - 63
             r == result + (b % 32) * (2 ^ shift)
         IN  IF b < 32 THEN [failed |-> FALSE, result |-> r, index |-> index + 1]
             ELSE read_chunks(polyline_str, index + 1, shift + 5, r)

\* unzigzag without the inversion of a negative value
unzigzag_high(result) ==
    IF result % 2 = 1 THEN 0 - (result \div 2) ELSE result \div 2

\* ~(result >> 1) if result & 1 else result >> 1
unzigzag(result) ==
    IF result % 2 = 1 THEN 0 - (result \div 2) - 1 ELSE result \div 2

\* the outer loop of _decode_polyline
RECURSIVE decode_loop(_, _, _, _, _)
decode_loop(polyline_str, index, lat, lng, coordinates) ==
    IF ~(index < Len(polyline_str))
    THEN [failed |-> FALSE, coordinates |-> coordinates]
    ELSE LET first == read_chunks(polyline_str, index, 0, 0)
             second == read_chunks(polyline_str, first.index, 0, 0)
             lat2 == lat + unzigzag(first.result)
             lng2 == lng + unzigzag(second.result)
         IN  IF first.failed \/ second.failed
             THEN [failed |-> TRUE, coordinates |-> coordinates]
             ELSE decode_loop(polyline_str, second.index, lat2, lng2,
                              Append(coordinates, <<lat2, lng2>>))

\* polyline_str[index] raises IndexError: the string ends inside a value
decode_raises(polyline_str) == decode_loop(polyline_str, 0, 0, 0, <<>>).failed

\* _decode_polyline: the coordinates, or the IndexError
_decode_polyline(polyline_str) ==
    IF decode_raises(polyline_str) THEN Raise
    ELSE decode_loop(polyline_str, 0, 0, 0, <<>>).coordinates

Call0 == [trace |-> <<>>, result |-> None, rng |-> rng]

Sent(st, who, kind) ==
    [st EXCEPT !.trace = Append(st.trace, Event("request", who, kind))]

Simulated(st, d) ==
    LET sim == _get_simulated_route(d, st.rng)
    IN  [st EXCEPT !.result = sim.route, !.rng = sim.rng]

\* _get_google_route sending its request a second time after an exception
_get_google_route_retry(st, net, d) ==
    LET sent == Sent(st, "google", net.kind)
    IN  CASE net.kind \in {"timeout", "malformed"} ->
                Simulated(Emit(Sent(sent, "google", net.kind), "google",
                               "Error fetching Google route"), d)
          [] net.kind \in {"http_error", "status_not_ok", "empty_results"} ->
                Simulated(Emit(sent, "google", "Google API error"), d)
          [] net.kind = "ok" ->
                [sent EXCEPT !.result =
                    [distance |-> net.metres,
                     duration |-> 10 * net.seconds,
                     duration_in_traffic |->
                         10 * (IF net.traffic = Never THEN net.seconds
                               ELSE net.traffic),
                     start_address |-> "start",
                     end_address |-> "end",
                     coordinates |-> 2,
                     steps |-> <<"step">>,
                     warnings |-> <<>>,
                     service |-> "google"]]

\* _get_google_route decoding the polyline outside its try block
_get_google_route_unguarded(st, net, d) ==
    LET sent == Sent(st, "google", net.kind)
    IN  CASE net.kind \in {"timeout", "malformed"} ->
                Simulated(Emit(sent, "google", "Error fetching Google route"), d)
          [] net.kind = "http_error" ->
                Simulated(Emit(sent, "google", "Google API error"), d)
          [] net.kind \in {"status_not_ok", "empty_results"} ->
                Simulated(Emit(sent, "google", "Google API status"), d)
          [] net.kind = "ok" /\ decode_raises(overview_polyline(net)) ->
                [sent EXCEPT !.result = Raise]
          [] OTHER ->
                [sent EXCEPT !.result =
                    [distance |-> net.metres,
                     duration |-> 10 * net.seconds,
                     duration_in_traffic |->
                         10 * (IF net.traffic = Never THEN net.seconds
                               ELSE net.traffic),
                     start_address |-> "start",
                     end_address |-> "end",
                     coordinates |-> Len(_decode_polyline(overview_polyline(net))),
                     steps |-> <<"step">>,
                     warnings |-> <<>>,
                     service |-> "google"]]

\* the whole body is inside try: the request, the reading of the answer and
\* the decoding of its polyline; except Exception prints and simulates
_get_google_route(st, net, d) ==
    LET sent == Sent(st, "google", net.kind)
    IN  CASE net.kind \in {"timeout", "malformed"} ->
                Simulated(Emit(sent, "google", "Error fetching Google route"), d)
          [] net.kind = "http_error" ->
                Simulated(Emit(sent, "google", "Google API error"), d)
          [] net.kind \in {"status_not_ok", "empty_results"} ->
                Simulated(Emit(sent, "google", "Google API status"), d)
          [] net.kind = "ok" /\ decode_raises(overview_polyline(net)) ->
                Simulated(Emit(sent, "google", "Error fetching Google route"), d)
          [] OTHER ->
                [sent EXCEPT !.result =
                    [distance |-> net.metres,
                     duration |-> 10 * net.seconds,
                     duration_in_traffic |->
                         10 * (IF net.traffic = Never THEN net.seconds
                               ELSE net.traffic),
                     start_address |-> "start",
                     end_address |-> "end",
                     coordinates |-> Len(_decode_polyline(overview_polyline(net))),
                     steps |-> <<"step">>,
                     warnings |-> <<>>,
                     service |-> "google"]]

\* _get_openroute_route without its except clause
_get_openroute_route_reraise(st, net, d) ==
    LET sent == Sent(st, "openroute", net.kind)
    IN  CASE net.kind \in {"timeout", "malformed"} ->
                [sent EXCEPT !.result = Raise]
          [] net.kind = "http_error" ->
                Simulated(Emit(sent, "openroute", "OpenRoute API error"), d)
          [] net.kind \in {"status_not_ok", "empty_results"} ->
                Simulated(sent, d)
          [] net.kind = "ok" ->
                [sent EXCEPT !.result =
                    [distance |-> net.metres,
                     duration |-> 10 * net.seconds,
                     coordinates |-> 2,
                     steps |-> <<"step">>,
                     service |-> "openroute"]]

_get_openroute_route(st, net, d) ==
    LET sent == Sent(st, "openroute", net.kind)
    IN  CASE net.kind \in {"timeout", "malformed"} ->
                Simulated(Emit(sent, "openroute", "Error fetching OpenRoute route"), d)
          [] net.kind = "http_error" ->
                Simulated(Emit(sent, "openroute", "OpenRoute API error"), d)
          [] net.kind \in {"status_not_ok", "empty_results"} ->
                Simulated(sent, d)
          [] net.kind = "ok" ->
                [sent EXCEPT !.result =
                    [distance |-> net.metres,
                     duration |-> 10 * net.seconds,
                     coordinates |-> Len(net.geometry),
                     steps |-> <<"step">>,
                     service |-> "openroute"]]

\* get_optimal_route without the test of self.enabled
get_optimal_route_unchecked(st, net, d) ==
    IF routing.service = "google" THEN _get_google_route(st, net, d)
    ELSE IF routing.service = "openroute" THEN _get_openroute_route(st, net, d)
    ELSE Simulated(st, d)

get_optimal_route(st, net, d) ==
    IF ~routing.enabled THEN Simulated(st, d)
    ELSE IF routing.service = "google" THEN _get_google_route(st, net, d)
    ELSE IF routing.service = "openroute" THEN _get_openroute_route(st, net, d)
    ELSE Simulated(st, d)

\* alt_route with the two factors exchanged
alt_route_swapped(primary_route, i) ==
    [k \in DOMAIN primary_route \cup {"route_name"} |->
        CASE k = "distance" -> (primary_route.distance * (100 + 15 * i)) \div 100
          [] k = "duration" -> (primary_route.duration * (10 + i)) \div 10
          [] k = "route_name" -> <<"Alternative", i>>
          [] OTHER -> primary_route[k]]

\* the alternative of index i: a copy of the primary route, varied
alt_route(primary_route, i) ==
    [k \in DOMAIN primary_route \cup {"route_name"} |->
        CASE k = "distance" -> (primary_route.distance * (10 + i)) \div 10
          [] k = "duration" -> (primary_route.duration * (100 + 15 * i)) \div 100
          [] k = "route_name" -> <<"Alternative", i>>
          [] OTHER -> primary_route[k]]

\* range(1, num_alternatives)
Range1(num_alternatives) == 1..(num_alternatives - 1)

\* the record left when every alternative from i on is made in the primary
\* route itself and not in a copy of it
RECURSIVE vary_in_place(_, _, _)
vary_in_place(route, i, num_alternatives) ==
    IF i \notin Range1(num_alternatives) THEN route
    ELSE vary_in_place(alt_route(route, i), i + 1, num_alternatives)

\* get_multiple_routes with alt_route = primary_route, without copy()
get_multiple_routes_aliased(st, net, d, num_alternatives) ==
    LET res == get_optimal_route(st, net, d)
        primary_route == res.result
    IN  [res EXCEPT !.result =
            IF Get(primary_route, "simulated", FALSE)
                   /\ Range1(num_alternatives) # {}
            THEN [i \in 1..num_alternatives |->
                     vary_in_place(primary_route, 1, num_alternatives)]
            ELSE <<primary_route>>]

\* get_multiple_routes without the test of primary_route.get('simulated')
get_multiple_routes_always(st, net, d, num_alternatives) ==
    LET res == get_optimal_route(st, net, d)
        primary_route == res.result
    IN  [res EXCEPT !.result =
            <<primary_route>> \o
            [i \in Range1(num_alternatives) |-> alt_route(primary_route, i)]]

get_multiple_routes(st, net, d, num_alternatives) ==
    LET res == get_optimal_route(st, net, d)
        primary_route == res.result
    IN  [res EXCEPT !.result =
            IF Get(primary_route, "simulated", FALSE)
            THEN <<primary_route>> \o
                 [i \in Range1(num_alternatives) |-> alt_route(primary_route, i)]
            ELSE <<primary_route>>]

\* datetime values are counted in 1/600 minute; datetime.now() from the clock
datetime_now == now * PerTick

\* a datetime is a number of 1/600 minute (0.1 s) since the first midnight;
\* its date is kept as the number of the day
PerHour == 60 * PerMinute
PerDay == 24 * PerHour
PerSecond == PerMinute \div 60

\* strftime('%Y-%m-%d %H:%M:%S'): date, hour, minute, second
strftime(t) ==
    <<t \div PerDay, (t % PerDay) \div PerHour, (t % PerHour) \div PerMinute,
      (t % PerMinute) \div PerSecond>>

\* isoformat(): the same, and the microseconds when there are any
isoformat(t) ==
    IF t % PerSecond = 0 THEN strftime(t)
    ELSE Append(strftime(t), (t % PerSecond) * (1000000 \div PerSecond))

\* current_time=None
NoTime == 0 - 1

\* calculate_eta without the preference for duration_in_traffic
calculate_eta_plain(route_data, current_time) ==
    LET start == IF current_time = NoTime THEN datetime_now ELSE current_time
        duration == Get(route_data, "duration", 0)
        eta == start + duration
    IN  [eta |-> isoformat(eta),
         eta_formatted |-> strftime(eta),
         duration_minutes |-> duration,
         distance_km |-> Get(route_data, "distance", 0)]

calculate_eta(route_data, current_time) ==
    LET start == IF current_time = NoTime THEN datetime_now ELSE current_time
        duration == Get(route_data, "duration_in_traffic",
                        Get(route_data, "duration", 0))
        eta == start + duration
    IN  [eta |-> isoformat(eta),
         eta_formatted |-> strftime(eta),
         duration_minutes |-> duration,
         distance_km |-> Get(route_data, "distance", 0)]

\* nearest_loop comparing with <= : the last of several nearest ones wins
RECURSIVE nearest_loop_last(_, _, _)
nearest_loop_last(acc, responders, i) ==
    IF i > Len(responders) THEN acc
    ELSE LET res == get_optimal_route([trace |-> acc.trace, result |-> None,
                                       rng |-> acc.rng],
                                      responders[i].net, responders[i].d)
             route == res.result
             better == IF acc.result = None THEN TRUE
                       ELSE route.distance <= acc.result.distance
         IN  nearest_loop_last(
                 [trace |-> res.trace,
                  rng |-> res.rng,
                  result |-> IF better
                             THEN [responder_id |-> i - 1,
                                   coordinates |-> responders[i].d,
                                   distance |-> route.distance,
                                   duration |-> route.duration,
                                   route |-> route]
                             ELSE acc.result],
                 responders, i + 1)

\* nearest_loop passing over a responder whose coordinates it has seen
RECURSIVE nearest_loop_dedup(_, _, _)
nearest_loop_dedup(acc, responders, i) ==
    IF i > Len(responders) THEN acc
    ELSE IF \E j \in 1..(i - 1) : responders[j].d = responders[i].d
    THEN nearest_loop_dedup(acc, responders, i + 1)
    ELSE LET res == get_optimal_route(
                        [trace |-> Append(acc.trace,
                                          Event("resolve", i - 1, responders[i].d)),
                         result |-> None, rng |-> acc.rng],
                        responders[i].net, responders[i].d)
             route == res.result
             better == IF acc.result = None THEN TRUE
                       ELSE route.distance < acc.result.distance
         IN  nearest_loop_dedup(
                 [trace |-> res.trace,
                  rng |-> res.rng,
                  result |-> IF better
                             THEN [responder_id |-> i - 1,
                                   coordinates |-> responders[i].d,
                                   distance |-> route.distance,
                                   duration |-> route.duration,
                                   route |-> route]
                             ELSE acc.result],
                 responders, i + 1)

\* the loop of find_nearest_responder from responder i on; acc carries the
\* events so far and nearest (None, or the record with its best_route).
\* Each call of get_optimal_route is an event of the trace: the index of the
\* responder and its coordinates (start; the emergency is the end)
RECURSIVE nearest_loop(_, _, _)
nearest_loop(acc, responders, i) ==
    IF i > Len(responders) THEN acc
    ELSE LET res == get_optimal_route(
                        [trace |-> Append(acc.trace,
                                          Event("resolve", i - 1, responders[i].d)),
                         result |-> None, rng |-> acc.rng],
                        responders[i].net, responders[i].d)
             route == res.result
             better == IF acc.result = None THEN TRUE
                       ELSE route.distance < acc.result.distance
         IN  nearest_loop(
                 [trace |-> res.trace,
                  rng |-> res.rng,
                  result |-> IF better
                             THEN [responder_id |-> i - 1,
                                   coordinates |-> responders[i].d,
                                   distance |-> route.distance,
                                   duration |-> route.duration,
                                   route |-> route]
                             ELSE acc.result],
                 responders, i + 1)

\* find_nearest_responder without the test `if nearest:` before the route
\* and the ETA are stored: None['route'] = ... raises TypeError
find_nearest_responder_unguarded(st, responders) ==
    LET res == nearest_loop(st, responders, 1)
        nearest == res.result
    IN  IF nearest = None THEN [res EXCEPT !.result = Raise]
        ELSE [res EXCEPT !.result =
                 [k \in DOMAIN nearest \cup {"eta"} |->
                     IF k = "eta" THEN calculate_eta(nearest.route, NoTime)
                     ELSE nearest[k]]]

find_nearest_responder(st, responders) ==
    LET res == nearest_loop(st, responders, 1)
        nearest == res.result
    IN  IF nearest = None THEN res
        ELSE [res EXCEPT !.result =
                 [k \in DOMAIN nearest \cup {"eta"} |->
                     IF k = "eta" THEN calculate_eta(nearest.route, NoTime)
                     ELSE nearest[k]]]

-----------------------------------------------------------------------------
(* WeatherAPI *)

WeatherAPI(api_key) ==
    LET key == Or(api_key, getenv("OPENWEATHER_API_KEY",
                                  Placeholder("OPENWEATHER_API_KEY")))
    IN  [api_key |-> key,
         enabled |-> key # Placeholder("OPENWEATHER_API_KEY")]

WeatherKinds == {"timeout", "http_error", "malformed", "ok"}

\* latitudes and longitudes are integers in 1/1000 degree; temperatures are
\* computed in 1/10000 degree Celsius, wind speeds and precipitations in
\* 1/100, and rounded to the tenths the records hold

\* int((latitude + 90) * 1000 + (longitude + 180) * 1000)
location_seed(latitude, longitude) == (latitude + 90000) + (longitude + 180000)

\* int(datetime.now().timestamp()) // 3600
hour_now == (datetime_now \div PerSecond) \div 3600

\* 25 - abs(latitude) * 0.4
base_temp(latitude) == 250000 - Abs(latitude) * 4

\* str.lower() of a weather condition
lower(weather_main) ==
    CASE weather_main = "Clear" -> "clear"
      [] weather_main = "Clouds" -> "clouds"
      [] weather_main = "Rain" -> "rain"
      [] weather_main = "Drizzle" -> "drizzle"
      [] weather_main = "Thunderstorm" -> "thunderstorm"
      [] weather_main = "Snow" -> "snow"

\* _get_simulated_weather drawing from a generator of its own, random.Random(seed),
\* and leaving the shared one as it finds it
_get_simulated_weather_local(latitude, longitude) ==
    LET g == random_seed(location_seed(latitude, longitude) + hour_now)
        temperature == base_temp(latitude) + uniform(g, 0 - 50000, 50000)
        weather_main ==
            choices(Advance(g, 1),
                    <<"Clear", "Clouds", "Rain", "Drizzle", "Thunderstorm", "Snow">>,
                    <<40, 30, 15, 10, 3, 2>>)
        wet == weather_main \in {"Rain", "Drizzle", "Thunderstorm"}
        precipitation ==
            CASE weather_main = "Rain" -> uniform(Advance(g, 2), 200, 1500)
              [] weather_main = "Drizzle" -> uniform(Advance(g, 2), 50, 200)
              [] weather_main = "Thunderstorm" -> uniform(Advance(g, 2), 1000, 3000)
              [] OTHER -> 0
        h == Advance(g, IF wet THEN 3 ELSE 2)
    IN  [result |->
            [temperature |-> Round(temperature, 1000),
             feels_like |-> Round(temperature + uniform(h, 0 - 20000, 20000), 1000),
             humidity |-> randint(Advance(h, 1), 40, 90),
             pressure |-> randint(Advance(h, 2), 1000, 1025),
             wind_speed |-> Round(uniform(Advance(h, 3), 0, 2000), 10),
             wind_direction |-> randint(Advance(h, 4), 0, 360),
             cloudiness |-> randint(Advance(h, 5), 0, 100),
             precipitation |-> Round(precipitation, 10),
             weather_main |-> weather_main,
             weather_description |-> lower(weather_main),
             visibility |-> randint(Advance(h, 6), 5000, 10000),
             timestamp |-> isoformat(datetime_now),
             simulated |-> TRUE],
         rng |-> rng]

\* _get_simulated_weather drawing from the generator as it finds it
_get_simulated_weather_unseeded(latitude, longitude) ==
    LET g == rng
        temperature == base_temp(latitude) + uniform(g, 0 - 50000, 50000)
    IN  [result |->
            [temperature |-> Round(temperature, 1000),
             feels_like |-> Round(temperature + uniform(Advance(g, 2), 0 - 20000,
                                                        20000), 1000),
             humidity |-> randint(Advance(g, 3), 40, 90),
             pressure |-> randint(Advance(g, 4), 1000, 1025),
             wind_speed |-> Round(uniform(Advance(g, 5), 0, 2000), 10),
             wind_direction |-> randint(Advance(g, 6), 0, 360),
             cloudiness |-> randint(Advance(g, 7), 0, 100),
             precipitation |-> 0,
             weather_main |-> "Clear",
             weather_description |-> "clear",
             visibility |-> randint(Advance(g, 8), 5000, 10000),
             timestamp |-> isoformat(datetime_now),
             simulated |-> TRUE],
         rng |-> Advance(g, 9)]

\* _get_simulated_weather: the record and the state the generator is left in
_get_simulated_weather(latitude, longitude) ==
    LET g == random_seed(location_seed(latitude, longitude) + hour_now)
        temperature == base_temp(latitude) + uniform(g, 0 - 50000, 50000)
        weather_main ==
            choices(Advance(g, 1),
                    <<"Clear", "Clouds", "Rain", "Drizzle", "Thunderstorm", "Snow">>,
                    <<40, 30, 15, 10, 3, 2>>)
        wet == weather_main \in {"Rain", "Drizzle", "Thunderstorm"}
        precipitation ==
            CASE weather_main = "Rain" -> uniform(Advance(g, 2), 200, 1500)
              [] weather_main = "Drizzle" -> uniform(Advance(g, 2), 50, 200)
              [] weather_main = "Thunderstorm" -> uniform(Advance(g, 2), 1000, 3000)
              [] OTHER -> 0
        h == Advance(g, IF wet THEN 3 ELSE 2)
    IN  [result |->
            [temperature |-> Round(temperature, 1000),
             feels_like |-> Round(temperature + uniform(h, 0 - 20000, 20000), 1000),
             humidity |-> randint(Advance(h, 1), 40, 90),
             pressure |-> randint(Advance(h, 2), 1000, 1025),
             wind_speed |-> Round(uniform(Advance(h, 3), 0, 2000), 10),
             wind_direction |-> randint(Advance(h, 4), 0, 360),
             cloudiness |-> randint(Advance(h, 5), 0, 100),
             precipitation |-> Round(precipitation, 10),
             weather_main |-> weather_main,
             weather_description |-> lower(weather_main),
             visibility |-> randint(Advance(h, 6), 5000, 10000),
             timestamp |-> isoformat(datetime_now),
             simulated |-> TRUE],
         rng |-> Advance(h, 7)]

\* entry i (from 0) of _get_simulated_forecast
forecast_data(latitude, longitude, i) ==
    LET g == random_seed(location_seed(latitude, longitude) + i)
    IN  [datetime |-> isoformat(datetime_now + i * 3 * PerHour),
         temperature |-> Round(base_temp(latitude) + uniform(g, 0 - 50000, 50000),
                               1000),
         humidity |-> randint(Advance(g, 1), 40, 90),
         pressure |-> randint(Advance(g, 2), 1000, 1025),
         wind_speed |-> Round(uniform(Advance(g, 3), 0, 2000), 10),
         precipitation |-> Round(uniform(Advance(g, 4), 0, 500), 10),
         weather_main |-> choice(Advance(g, 5), <<"Clear", "Clouds", "Rain">>),
         weather_description |-> "simulated",
         simulated |-> TRUE]

\* _get_simulated_forecast, the generator being in state g0 before
_get_simulated_forecast(latitude, longitude, days, g0) ==
    [result |-> [k \in 1..(days * 8) |-> forecast_data(latitude, longitude, k - 1)],
     rng |-> IF days * 8 = 0 THEN g0
             ELSE Advance(random_seed(location_seed(latitude, longitude)
                                      + days * 8 - 1), 6)]

\* _get_simulated_air_quality without its flag
_get_simulated_air_quality_unflagged(g) ==
    [result |-> [aqi |-> randint(g, 1, 5),
                 co |-> uniform(Advance(g, 1), 200, 400),
                 no2 |-> uniform(Advance(g, 2), 10, 50),
                 o3 |-> uniform(Advance(g, 3), 20, 80),
                 pm2_5 |-> uniform(Advance(g, 4), 5, 35),
                 pm10 |-> uniform(Advance(g, 5), 10, 50)],
     rng |-> Advance(g, 6)]

\* _get_simulated_air_quality, the generator being in state g
_get_simulated_air_quality(g) ==
    [result |-> [aqi |-> randint(g, 1, 5),
                 co |-> uniform(Advance(g, 1), 200, 400),
                 no2 |-> uniform(Advance(g, 2), 10, 50),
                 o3 |-> uniform(Advance(g, 3), 20, 80),
                 pm2_5 |-> uniform(Advance(g, 4), 5, 35),
                 pm10 |-> uniform(Advance(g, 5), 10, 50),
                 simulated |-> TRUE],
     rng |-> Advance(g, 6)]

\* a call ends with the outcome of a simulation
Falls(st, sim) == [st EXCEPT !.result = sim.result, !.rng = sim.rng]

\* what OpenWeather reports in a complete answer
weather_data ==
    [temperature |-> 281, feels_like |-> 275, humidity |-> 74,
     pressure |-> 1012, wind_speed |-> 36, wind_direction |-> 200,
     cloudiness |-> 40, precipitation |-> 0, weather_main |-> "Clouds",
     weather_description |-> "scattered clouds", visibility |-> 10000,
     timestamp |-> isoformat(datetime_now)]

get_current_weather(st, kind, latitude, longitude) ==
    IF ~weather.enabled
    THEN Falls(st, _get_simulated_weather(latitude, longitude))
    ELSE LET sent == Sent(st, "openweather", kind)
         IN  CASE kind \in {"timeout", "malformed"} ->
                    Falls(Emit(sent, "openweather", "Error fetching weather data"),
                          _get_simulated_weather(latitude, longitude))
               [] kind = "http_error" ->
                    Falls(Emit(sent, "openweather", "Weather API error"),
                          _get_simulated_weather(latitude, longitude))
               [] kind = "ok" ->
                    [sent EXCEPT !.result = weather_data]

\* the items of a complete forecast answer: more than a day of them
forecast_list(days) ==
    [k \in 1..Min(days * 8, 9) |->
        [datetime |-> isoformat(datetime_now + (k - 1) * 3 * PerHour),
         temperature |-> 281, humidity |-> 74, pressure |-> 1012,
         wind_speed |-> 36, precipitation |-> 0, weather_main |-> "Clouds",
         weather_description |-> "scattered clouds"]]

get_forecast(st, kind, latitude, longitude, days) ==
    IF ~weather.enabled
    THEN Falls(st, _get_simulated_forecast(latitude, longitude, days, st.rng))
    ELSE LET sent == Sent(st, "openweather", kind)
         IN  CASE kind \in {"timeout", "malformed"} ->
                    Falls(Emit(sent, "openweather", "Error fetching forecast"),
                          _get_simulated_forecast(latitude, longitude, days,
                                                  st.rng))
               [] kind = "http_error" ->
                    Falls(Emit(sent, "openweather", "Forecast API error"),
                          _get_simulated_forecast(latitude, longitude, days,
                                                  st.rng))
               [] kind = "ok" ->
                    [sent EXCEPT !.result = forecast_list(days)]

\* what OpenWeather reports on air pollution in a complete answer
air_quality ==
    [aqi |-> 2, co |-> 230, no2 |-> 12, o3 |-> 60, pm2_5 |-> 8, pm10 |-> 15]

get_air_quality(st, kind) ==
    IF ~weather.enabled THEN Falls(st, _get_simulated_air_quality(st.rng))
    ELSE LET sent == Sent(st, "openweather", kind)
         IN  CASE kind \in {"timeout", "malformed"} ->
                    Falls(Emit(sent, "openweather", "Error fetching air quality"),
                          _get_simulated_air_quality(st.rng))
               [] kind = "http_error" ->
                    Falls(sent, _get_simulated_air_quality(st.rng))
               [] kind = "ok" ->
                    [sent EXCEPT !.result = air_quality]

-----------------------------------------------------------------------------
(* The operations, one action each *)

objects == <<env, geo, routing, weather>>
callers == <<pc, local>>
randoms == <<rng, seen>>

NoCall == [op |-> "", args |-> <<>>, trace |-> <<>>, result |-> None]

\* a geocoding request: res is the outcome of geocode or reverse_geocode
GeoRequest(op, resp, res) ==
    /\ res.t <= MaxTime
    /\ now' = res.t
    /\ geo' = [geo EXCEPT !.last_request_time = res.last_request_time]
    /\ lastCall' = res.lastCall
    /\ call' = [op |-> op, args |-> resp, trace |-> res.trace,
                result |-> res.result]
    /\ UNCHANGED <<env, routing, weather, callers, randoms>>

Geocode(resp, lat) == GeoRequest("geocode", resp, geocode(resp, lat))

ReverseGeocode(resp, lat) ==
    GeoRequest("reverse_geocode", resp, reverse_geocode(resp, lat))

\* time passes between two calls
Tick ==
    /\ now < MaxTime
    /\ now' = now + 1
    /\ UNCHANGED <<objects, lastCall, call, callers, randoms>>

\* a call that leaves every object and the clock as they are
Returns(op, args, res) ==
    /\ call' = [op |-> op, args |-> args, trace |-> res.trace,
                result |-> res.result]
    /\ rng' = res.rng
    /\ UNCHANGED <<objects, now, lastCall, callers, seen>>

GetOptimalRoute(net, d) ==
    Returns("get_optimal_route", [net |-> net, d |-> d],
            get_optimal_route(Call0, net, d))

GetMultipleRoutes(net, d, n) ==
    Returns("get_multiple_routes", [net |-> net, d |-> d, n |-> n],
            get_multiple_routes(Call0, net, d, n))

FindNearestResponder(responders) ==
    Returns("find_nearest_responder", responders,
            find_nearest_responder(Call0, responders))

CalculateEta(route_data, current_time) ==
    Returns("calculate_eta",
            [route_data |-> route_data, current_time |-> current_time],
            [Call0 EXCEPT !.result = calculate_eta(route_data, current_time)])

\* the provider encodes a path and _decode_polyline decodes what it sent
DecodePolyline(path) ==
    Returns("_decode_polyline", [path |-> path, polyline_str |-> Encode(path)],
            [Call0 EXCEPT !.result = _decode_polyline(Encode(path))])

InterpolatePath(start_coords, end_coords, num_points) ==
    LET res == _interpolate_path(start_coords, end_coords, num_points, rng)
    IN  Returns("_interpolate_path",
                [start_coords |-> start_coords, end_coords |-> end_coords,
                 num_points |-> num_points, rng |-> rng],
                [Call0 EXCEPT !.result = res.path, !.rng = res.rng])

\* a call of WeatherAPI at a place; args.rng is the state the generator is
\* in when the call starts.  keep tells whether its result, when it is a
\* simulated one, is the one kept for comparison with later results: it is
\* kept with the place (and days) asked for, the hour of the call and the
\* state the call leaves the generator in
Observes(op, args, res, keep) ==
    /\ call' = [op |-> op, args |-> args, trace |-> res.trace,
                result |-> res.result]
    /\ rng' = res.rng
    /\ seen' = IF keep /\ (~weather.enabled \/ args.kind # "ok")
               THEN [op |-> op, latitude |-> args.latitude,
                     longitude |-> args.longitude,
                     days |-> Get(args, "days", 0), hour |-> hour_now,
                     result |-> res.result, rng |-> res.rng]
               ELSE seen
    /\ UNCHANGED <<objects, now, lastCall, callers>>

GetCurrentWeather(kind, latitude, longitude, keep) ==
    Observes("get_current_weather",
             [kind |-> kind, latitude |-> latitude, longitude |-> longitude,
              rng |-> rng],
             get_current_weather(Call0, kind, latitude, longitude), keep)

GetForecast(kind, latitude, longitude, days, keep) ==
    Observes("get_forecast",
             [kind |-> kind, latitude |-> latitude, longitude |-> longitude,
              days |-> days, rng |-> rng],
             get_forecast(Call0, kind, latitude, longitude, days), keep)

GetAirQuality(kind, latitude, longitude, keep) ==
    Observes("get_air_quality",
             [kind |-> kind, latitude |-> latitude, longitude |-> longitude,
              rng |-> rng],
             get_air_quality(Call0, kind), keep)

\* an hour goes by
HourPasses ==
    /\ now < MaxHours * 3600 * TicksPerSecond
    /\ now' = now + 3600 * TicksPerSecond
    /\ UNCHANGED <<objects, lastCall, call, callers, randoms>>

-----------------------------------------------------------------------------
(* Initial states: the objects as their constructors leave them *)

\* no simulated weather result has been kept
NothingSeen == [op |-> ""]

NoCaller == [current_time |-> 0, sleep_until |-> 0, passed |-> Never]
Callers == {1, 2}

\* environments that set some of the variables to a real key
KeyEnvs(varset) ==
    {[v \in EnvVars |-> IF v \in S THEN "key" ELSE Unset] : S \in SUBSET varset}

\* time.time() is far from 0, the initial last_request_time
StartTimes == TicksPerSecond .. (TicksPerSecond + 1)

Constructed(envs, services, generators) ==
    /\ env \in envs
    /\ geo = GeocodingAPI(NoneStr, NoneStr)
    /\ \E service \in services : routing = RoutingAPI(service, NoneStr)
    /\ weather = WeatherAPI(NoneStr)
    /\ now \in StartTimes
    /\ lastCall = [p \in GeoProviderSet |-> Never]
    /\ call = NoCall
    /\ pc = [c \in Callers |-> "idle"]
    /\ local = [c \in Callers |-> NoCaller]
    /\ rng \in generators
    /\ seen = NothingSeen

-----------------------------------------------------------------------------
(* Geocoding alone: every provider answer after every latency, time        *)
(* passing between requests.  A call's record stays until the caller drops *)
(* it, and the next call starts after that.                                *)

Idle == call.op = ""

Discard ==
    /\ ~Idle
    /\ call' = NoCall
    /\ UNCHANGED <<objects, now, lastCall, callers, randoms>>

InitGeo ==
    Constructed(KeyEnvs({"GOOGLE_GEOCODING_API_KEY", "OPENCAGE_API_KEY"}),
                {"google"}, {0})

NextGeo ==
    \/ Idle /\ \E resp \in GeoResponses, lat \in Latencies : Geocode(resp, lat)
    \/ Idle /\ \E resp \in GeoResponses, lat \in Latencies :
                  ReverseGeocode(resp, lat)
    \/ Idle /\ Tick
    \/ Discard

SpecGeo == InitGeo /\ [][NextGeo]_vars

-----------------------------------------------------------------------------
(* Routing alone *)

\* what each responder's route request meets: a failing or an answering
\* provider, at every distance
ResponderInputs ==
    [net : {n \in RouteAnswers : n.kind = "timeout" \/
                                 (n.kind = "ok" /\ n.traffic = Never /\
                                  n.geometry = Geometry /\ n.cut = 0)},
     d : {d \in Distances : d <= 2 * DistanceStep}]

ResponderLists(longest) ==
    UNION {[1..k -> ResponderInputs] : k \in 0..longest}

InitRoute ==
    Constructed(KeyEnvs({"GOOGLE_MAPS_API_KEY", "OPENROUTE_API_KEY"}),
                RoutingServices, Generators)

NextRoute ==
    \/ Idle /\ \E net \in RouteAnswers, d \in Distances : GetOptimalRoute(net, d)
    \/ Idle /\ \E net \in RouteAnswers, d \in Distances,
                    n \in 0..MaxAlternatives : GetMultipleRoutes(net, d, n)
    \/ Idle /\ \E responders \in ResponderLists(MaxResponders) :
                  FindNearestResponder(responders)
    \/ Discard

SpecRoute == InitRoute /\ [][NextRoute]_vars

-----------------------------------------------------------------------------
(* The functions of RoutingAPI that send nothing, over bounded inputs *)

\* routes with one, both or none of the two durations, and simulated ones
EtaRoutes ==
    {[distance |-> 1500, duration |-> 20 * PerMinute,
      duration_in_traffic |-> 30 * PerMinute],
     [distance |-> 1500, duration |-> 20 * PerMinute,
      duration_in_traffic |-> 15 * PerMinute + 7],
     [distance |-> 1500, duration |-> 20 * PerMinute],
     [distance |-> 1500]}
    \cup {_get_simulated_route(d, 0).route : d \in Distances}

\* no reference time, midnight, half a minute before midnight, and a time
\* with a fraction of a second
EtaTimes == {NoTime, 0, PerDay - 300, 2 * PerDay + 13 * PerHour + 5}

\* coordinate values (1/100000 degree) whose differences take one chunk and
\* several, of both signs
PolylineValues == {0 - 12020000, 0 - 17, 0, 16, 3850000}
PolylinePaths ==
    UNION {[1..k -> PolylineValues \X PolylineValues] : k \in 0..MaxPoints}

\* coordinates that are floats, some of them with a difference that is not
PathValues == {0 - 40, 1, TUnit + 2}

InitFunctions == Constructed(KeyEnvs({}), {"google"}, Generators)

NextFunctions ==
    \/ Idle /\ \E route_data \in EtaRoutes, current_time \in EtaTimes :
                  CalculateEta(route_data, current_time)
    \/ Idle /\ \E path \in PolylinePaths : DecodePolyline(path)
    \/ Idle /\ \E start_coords \in PathValues \X PathValues,
                    end_coords \in PathValues \X PathValues,
                    num_points \in 1..MaxWaypoints :
                  InterpolatePath(start_coords, end_coords, num_points)
    \/ Idle /\ Tick
    \/ Discard

SpecFunctions == InitFunctions /\ [][NextFunctions]_vars

-----------------------------------------------------------------------------
(* The three clients side by side: every credential configured or none,    *)
(* providers answering at once                                             *)

Instant == [p \in GeoProviderSet |-> 0]
\* a place, and the places weather is asked for: that one and one in the
\* south
Place == <<6500, 3250>>
Places == {Place, <<0 - 33750, 151018>>}

Init ==
    Constructed({[v \in EnvVars |-> Unset], [v \in EnvVars |-> "key"]},
                RoutingServices, Generators)

Next ==
    \/ Idle /\ \E resp \in GeoResponses : Geocode(resp, Instant)
    \/ Idle /\ \E resp \in GeoResponses : ReverseGeocode(resp, Instant)
    \/ Idle /\ \E net \in RouteAnswers, d \in Distances : GetOptimalRoute(net, d)
    \/ Idle /\ \E net \in RouteAnswers, d \in Distances,
                    n \in 0..MaxAlternatives : GetMultipleRoutes(net, d, n)
    \/ Idle /\ \E responders \in ResponderLists(1) :
                  FindNearestResponder(responders)
    \/ Idle /\ \E kind \in WeatherKinds :
                  GetCurrentWeather(kind, Place[1], Place[2], FALSE)
    \/ Idle /\ \E kind \in WeatherKinds, days \in 0..MaxDays :
                  GetForecast(kind, Place[1], Place[2], days, FALSE)
    \/ Idle /\ \E kind \in WeatherKinds :
                  GetAirQuality(kind, Place[1], Place[2], FALSE)
    \/ Discard

Spec == Init /\ [][Next]_vars

-----------------------------------------------------------------------------
(* Weather alone, with one simulated result kept for comparison: calls at  *)
(* several places, time passing between them within an hour and from one   *)
(* hour to the next, and route requests that draw from the same generator  *)

InitWeather ==
    Constructed({[v \in EnvVars |-> Unset], [v \in EnvVars |-> "key"]},
                {"google"}, Generators)

\* a disabled client sends nothing: what the provider would answer is
\* immaterial, and one answer stands for all
WeatherAnswers == IF weather.enabled THEN WeatherKinds ELSE {"timeout"}

NextWeather ==
    \/ Idle /\ \E kind \in WeatherAnswers, place \in Places, keep \in BOOLEAN :
                  GetCurrentWeather(kind, place[1], place[2], keep)
    \/ Idle /\ \E kind \in WeatherAnswers, place \in Places, days \in 0..MaxDays,
                    keep \in BOOLEAN :
                  GetForecast(kind, place[1], place[2], days, keep)
    \/ Idle /\ \E kind \in WeatherAnswers, place \in Places, keep \in BOOLEAN :
                  GetAirQuality(kind, place[1], place[2], keep)
    \/ Idle /\ \E net \in {n \in RouteAnswers : n.kind = "timeout"} :
                  GetOptimalRoute(net, DistanceStep)
    \/ Idle /\ Tick
    \/ Idle /\ HourPasses
    \/ Discard

SpecWeather == InitWeather /\ [][NextWeather]_vars

-----------------------------------------------------------------------------
(* The constructors, over every kind of credential: a variable of the      *)
(* environment is unset, empty, its own placeholder, the placeholder of    *)
(* another provider, or a real key; an argument likewise, or None          *)

OtherVar(var) ==
    CASE var = "GOOGLE_MAPS_API_KEY" -> "OPENROUTE_API_KEY"
      [] var = "OPENROUTE_API_KEY" -> "GOOGLE_MAPS_API_KEY"
      [] var = "GOOGLE_GEOCODING_API_KEY" -> "OPENCAGE_API_KEY"
      [] var = "OPENCAGE_API_KEY" -> "GOOGLE_GEOCODING_API_KEY"
      [] var = "OPENWEATHER_API_KEY" -> "GOOGLE_MAPS_API_KEY"

CredEnvs ==
    {[v \in EnvVars |-> Unset], [v \in EnvVars |-> ""],
     [v \in EnvVars |-> Placeholder(v)],
     [v \in EnvVars |-> Placeholder(OtherVar(v))],
     [v \in EnvVars |-> "key"]}

CredArgs(var) ==
    {NoneStr, "", Placeholder(var), Placeholder(OtherVar(var)), "key"}

Constructs(op, args) ==
    /\ call' = [op |-> op, args |-> args, trace |-> <<>>, result |-> None]
    /\ UNCHANGED <<env, now, lastCall, callers, randoms>>

NewGeocodingAPI(google_key, opencage_key) ==
    /\ geo' = GeocodingAPI(google_key, opencage_key)
    /\ Constructs("GeocodingAPI",
                  [google_key |-> google_key, opencage_key |-> opencage_key])
    /\ UNCHANGED <<routing, weather>>

NewRoutingAPI(service, api_key) ==
    /\ routing' = RoutingAPI(service, api_key)
    /\ Constructs("RoutingAPI", [service |-> service, api_key |-> api_key])
    /\ UNCHANGED <<geo, weather>>

NewWeatherAPI(api_key) ==
    /\ weather' = WeatherAPI(api_key)
    /\ Constructs("WeatherAPI", [api_key |-> api_key])
    /\ UNCHANGED <<geo, routing>>

InitCred == Constructed(CredEnvs, {"google"}, {0})

NextCred ==
    \/ Idle /\ \E gk \in CredArgs("GOOGLE_GEOCODING_API_KEY"),
                    ok \in CredArgs("OPENCAGE_API_KEY") : NewGeocodingAPI(gk, ok)
    \/ Idle /\ \E service \in RoutingServices,
                    key \in CredArgs("GOOGLE_MAPS_API_KEY") :
                  NewRoutingAPI(service, key)
    \/ Idle /\ \E key \in CredArgs("OPENWEATHER_API_KEY") : NewWeatherAPI(key)
    \/ Discard

SpecCred == InitCred /\ [][NextCred]_vars

-----------------------------------------------------------------------------
(* Two callers inside _rate_limit of one GeocodingAPI at the same time:    *)
(* the statements of _rate_limit interleave                                *)

\* lines 292-297: read the clock and the shared timestamp, decide to sleep
RateLimitRead(c) ==
    /\ pc[c] = "idle"
    /\ LET current_time == now
           time_since_last_request == current_time - geo.last_request_time
       IN  IF time_since_last_request < geo.min_request_interval
           THEN /\ pc' = [pc EXCEPT ![c] = "sleep"]
                /\ local' = [local EXCEPT
                       ![c].current_time = current_time,
                       ![c].sleep_until =
                           now + (geo.min_request_interval - time_since_last_request)]
           ELSE /\ pc' = [pc EXCEPT ![c] = "stamp"]
                /\ local' = [local EXCEPT ![c].current_time = current_time]
    /\ UNCHANGED <<objects, now, lastCall, call, randoms>>

\* time.sleep returns once the time slept has gone by
RateLimitWake(c) ==
    /\ pc[c] = "sleep"
    /\ now >= local[c].sleep_until
    /\ pc' = [pc EXCEPT ![c] = "stamp"]
    /\ UNCHANGED <<objects, now, lastCall, call, local, randoms>>

\* line 299: self.last_request_time = time.time(); the caller has passed
RateLimitStamp(c) ==
    /\ pc[c] = "stamp"
    /\ geo' = [geo EXCEPT !.last_request_time = now]
    /\ local' = [local EXCEPT ![c].passed = now]
    /\ pc' = [pc EXCEPT ![c] = "passed"]
    /\ UNCHANGED <<env, routing, weather, now, lastCall, call, randoms>>

\* the request is over; the caller may come back with another one
RequestOver(c) ==
    /\ pc[c] = "passed"
    /\ pc' = [pc EXCEPT ![c] = "idle"]
    /\ UNCHANGED <<objects, now, lastCall, call, local, randoms>>

NextConc ==
    \/ \E c \in Callers : RateLimitRead(c)
    \/ \E c \in Callers : RateLimitWake(c)
    \/ \E c \in Callers : RateLimitStamp(c)
    \/ \E c \in Callers : RequestOver(c)
    \/ Tick

SpecConc == InitGeo /\ [][NextConc]_vars

-----------------------------------------------------------------------------
(* Reading a call's record *)

\* the outbound requests of the latest call, in the order they were sent
Requests == SelectSeq(call.trace, LAMBDA e : e.ev = "request")

GeoEnabled(p) ==
    CASE p = "google" -> geo.google_enabled
      [] p = "opencage" -> geo.opencage_enabled
      [] p = "nominatim" -> geo.nominatim_enabled

\* positions, in the order Google, OpenCage, Nominatim, of the enabled
\* providers that answer the latest geocoding call with a complete result
Answering ==
    {i \in 1..3 : GeoEnabled(GeoProviders[i]) /\ call.args[GeoProviders[i]] = "ok"}

Least(S) == CHOOSE i \in S : \A j \in S : i <= j

Confidence(p) ==
    CASE p = "google" -> "high"
      [] p = "opencage" -> "numeric"
      [] p = "nominatim" -> "medium"

-----------------------------------------------------------------------------
(* C1: geocode returns the record of the first provider, in the order      *)
(* Google, OpenCage, Nominatim, that is enabled and succeeds, tagged with  *)
(* that provider's name; nothing of the earlier providers' failures is in  *)
(* the returned value and no exception leaves geocode.                     *)
C1_FirstSuccessTagged ==
    (call.op = "geocode" /\ Answering # {}) =>
        LET first == GeoProviders[Least(Answering)]
        IN  call.result = [type |-> "geocode", payload |-> first,
                           confidence |-> Confidence(first),
                           provider |-> first]

\* Google raises, OpenCage finds nothing, Nominatim answers
C1_Witness ==
    /\ call.op = "geocode"
    /\ geo.google_enabled /\ geo.opencage_enabled
    /\ call.args["google"] = "timeout"
    /\ call.args["opencage"] = "empty_results"
    /\ call.args["nominatim"] = "ok"
    /\ call.result.provider = "nominatim"

-----------------------------------------------------------------------------
(* C4: in reverse_geocode every failure of an enabled provider (exception, *)
(* non-200 status, status not OK, empty result list) is followed by a      *)
(* request to the next enabled provider: the call never ends on a failed   *)
(* provider while a later one is untried.                                  *)
C4_ReverseAdvancesOnAnyFailure ==
    call.op = "reverse_geocode" =>
        LET last == Requests[Len(Requests)]
        IN  last.info # "ok" => last.who = "nominatim"

-----------------------------------------------------------------------------
(* C5: two successive outbound requests to the same geocoding provider are *)
(* at least min_request_interval apart.                                    *)
C5_SameProviderSpacing ==
    [][\A p \in GeoProviderSet :
          (lastCall[p] # Never /\ lastCall'[p] # lastCall[p]) =>
              lastCall'[p] - lastCall[p] >= geo.min_request_interval]_vars

-----------------------------------------------------------------------------
(* Reading the record of a routing call *)

RoutingVar(p) ==
    CASE p = "google" -> "GOOGLE_MAPS_API_KEY"
      [] p = "openroute" -> "OPENROUTE_API_KEY"

\* a real credential for routing provider p is configured
Configured(p) == env[RoutingVar(p)] \notin {Unset, "", Placeholder(RoutingVar(p))}

RequestsTo(p) == SelectSeq(Requests, LAMBDA e : e.who = p)

IsSimulatedRoute(r) ==
    /\ Get(r, "simulated", FALSE) = TRUE
    /\ Get(r, "service", "") = "simulated"

\* the RoutingAPI's provider does not deliver the route of the latest call
NoRouteDelivered ==
    \/ ~routing.enabled
    \/ routing.service \notin {"google", "openroute"}
    \/ call.args.net.kind # "ok"
    \/ routing.service = "google" /\ call.args.net.cut > 0

\* the adapter of reverse_geocode for p yields a record on this answer
ReverseYields(p, kind) ==
    kind = "ok" \/ (p = "nominatim" /\ kind = "empty_results")

-----------------------------------------------------------------------------
-----------------------------------------------------------------------------
-----------------------------------------------------------------------------
(* C6: callers inside _rate_limit at the same time never pass it less than *)
(* min_request_interval apart.                                             *)
C6_ConcurrentCallersSpaced ==
    \A c1, c2 \in Callers :
        (c1 # c2 /\ local[c1].passed # Never /\ local[c2].passed # Never) =>
            \/ local[c1].passed - local[c2].passed >= geo.min_request_interval
            \/ local[c2].passed - local[c1].passed >= geo.min_request_interval

-----------------------------------------------------------------------------
(* C7: in every routing or weather call, each outbound provider request is *)
(* preceded by a rate-limiter acquire.                                     *)
C7_RequestsAfterAcquire ==
    call.op \in {"get_optimal_route", "get_multiple_routes",
                 "find_nearest_responder", "get_current_weather",
                 "get_forecast", "get_air_quality"} =>
        \A i \in 1..Len(call.trace) :
            call.trace[i].ev = "request" =>
                \E j \in 1..(i - 1) : call.trace[j].ev = "rate_limit"

-----------------------------------------------------------------------------
-----------------------------------------------------------------------------
(* C9: after every constructor, whatever the argument and the environment, *)
(* a provider is enabled exactly when its credential (the argument, or the *)
(* environment variable when no argument is given) is present, non-empty   *)
(* and not that provider's placeholder.                                    *)
Credential(arg, var) == IF arg \notin {NoneStr, ""} THEN arg ELSE env[var]

Usable(credential, var) ==
    credential \notin {Unset, NoneStr, "", Placeholder(var)}

C9_EnabledIffCredential ==
    /\ call.op = "GeocodingAPI" =>
          /\ geo.google_enabled <=>
                Usable(Credential(call.args.google_key, "GOOGLE_GEOCODING_API_KEY"),
                       "GOOGLE_GEOCODING_API_KEY")
          /\ geo.opencage_enabled <=>
                Usable(Credential(call.args.opencage_key, "OPENCAGE_API_KEY"),
                       "OPENCAGE_API_KEY")
    /\ (call.op = "RoutingAPI" /\ call.args.service \in {"google", "openroute"}) =>
          (routing.enabled <=>
              Usable(Credential(call.args.api_key, RoutingVar(call.args.service)),
                     RoutingVar(call.args.service)))
    /\ call.op = "WeatherAPI" =>
          (weather.enabled <=>
              Usable(Credential(call.args.api_key, "OPENWEATHER_API_KEY"),
                     "OPENWEATHER_API_KEY"))

-----------------------------------------------------------------------------
(* C10: get_multiple_routes with num_alternatives = n >= 1 and a simulated *)
(* primary route returns n routes, the first one the primary route, and    *)
(* for i in 1..n-1 the route of index i has distance = primary distance x  *)
(* (1 + 0.1 i) and duration = primary duration x (1 + 0.15 i).             *)
C10_AlternativesScaled ==
    (/\ call.op = "get_multiple_routes"
     /\ call.args.n >= 1
     /\ Get(call.result[1], "simulated", FALSE) = TRUE) =>
        /\ Len(call.result) = call.args.n
        /\ call.result[1] = _get_simulated_route(call.args.d, 0).route
        /\ \A i \in 1..(call.args.n - 1) :
              /\ 10 * call.result[i + 1].distance =
                     (10 + i) * call.result[1].distance
              /\ 100 * call.result[i + 1].duration =
                     (100 + 15 * i) * call.result[1].duration

\* three routes asked for a simulated primary route of non-zero length
C10_Witness ==
    /\ call.op = "get_multiple_routes"
    /\ call.args.n = 3
    /\ Len(call.result) = 3
    /\ call.result[1].service = "simulated"
    /\ call.result[1].distance > 0
    /\ call.result[3].duration > call.result[1].duration

-----------------------------------------------------------------------------
-----------------------------------------------------------------------------
(* C12: every route returned by get_optimal_route, and every route of the  *)
(* list returned by get_multiple_routes, that has both fields has          *)
(* duration_in_traffic >= duration.                                        *)
TrafficNotShorter(route) ==
    {"duration", "duration_in_traffic"} \subseteq DOMAIN route =>
        route.duration_in_traffic >= route.duration

C12_TrafficNotShorter ==
    /\ call.op = "get_optimal_route" => TrafficNotShorter(call.result)
    /\ call.op = "get_multiple_routes" =>
          \A i \in 1..Len(call.result) : TrafficNotShorter(call.result[i])

-----------------------------------------------------------------------------
(* C13: for a non-empty list of responders find_nearest_responder returns  *)
(* the responder whose route has the least distance, the one of smallest   *)
(* index when several have it, with that responder's distance, duration    *)
(* and route.                                                              *)
RouteOf(responder) == get_optimal_route(Call0, responder.net, responder.d).result

C13_NearestIsFirstMinimum ==
    (call.op = "find_nearest_responder" /\ Len(call.args) >= 1) =>
        LET routes == [i \in 1..Len(call.args) |-> RouteOf(call.args[i])]
            best == Least({i \in 1..Len(call.args) :
                             \A j \in 1..Len(call.args) :
                                 routes[i].distance <= routes[j].distance})
        IN  /\ call.result # None
            /\ call.result.responder_id = best - 1
            /\ call.result.distance = routes[best].distance
            /\ call.result.duration = routes[best].duration
            /\ call.result.route = routes[best]

\* the second and the third of three responders are equally near, the first
\* one is farther: the second one is returned
C13_Witness ==
    /\ call.op = "find_nearest_responder"
    /\ Len(call.args) = 3
    /\ RouteOf(call.args[2]).distance = RouteOf(call.args[3]).distance
    /\ RouteOf(call.args[1]).distance > RouteOf(call.args[2]).distance
    /\ call.result.responder_id = 1

-----------------------------------------------------------------------------
(* C14: calculate_eta returns the reference time plus the route's          *)
(* duration_in_traffic when the route has one, and plus its duration       *)
(* otherwise; duration_minutes is the duration that was added.  The ETA is *)
(* read back from its isoformat text.                                      *)
FromIso(text) ==
    text[1] * PerDay + text[2] * PerHour + text[3] * PerMinute
    + text[4] * PerSecond
    + (IF Len(text) = 5 THEN text[5] \div (1000000 \div PerSecond) ELSE 0)

C14_EtaAddsDuration ==
    (/\ call.op = "calculate_eta"
     /\ {"duration", "duration_in_traffic"} \cap DOMAIN call.args.route_data # {})
    => LET route_data == call.args.route_data
           reference == IF call.args.current_time = NoTime THEN datetime_now
                        ELSE call.args.current_time
           used == IF "duration_in_traffic" \in DOMAIN route_data
                   THEN route_data.duration_in_traffic
                   ELSE route_data.duration
       IN  /\ FromIso(call.result.eta) = reference + used
           /\ call.result.duration_minutes = used

\* a route of 20 minutes, 30 in traffic, at midnight of day 0: 00:30:00
C14_Witness ==
    /\ call.op = "calculate_eta"
    /\ call.args.current_time = 0
    /\ "duration_in_traffic" \in DOMAIN call.args.route_data
    /\ call.args.route_data.duration_in_traffic = 30 * PerMinute
    /\ call.args.route_data.duration = 20 * PerMinute
    /\ call.result.eta = <<0, 0, 30, 0>>
    /\ call.result.duration_minutes = 30 * PerMinute

-----------------------------------------------------------------------------
(* C15: _decode_polyline is the inverse of the Encoded Polyline Algorithm: *)
(* from the encoding of a path it returns that path, negative differences  *)
(* and differences of several chunks included.                             *)
C15_DecodeInvertsEncode ==
    call.op = "_decode_polyline" => call.result = call.args.path

\* a path of two points, the second one south-west of the first by more
\* than one chunk holds, has been decoded
C15_Witness ==
    /\ call.op = "_decode_polyline"
    /\ Len(call.args.path) = 2
    /\ call.args.path[2][1] - call.args.path[1][1] < 0 - 16
    /\ call.args.path[2][2] - call.args.path[1][2] < 0 - 16
    /\ Len(call.args.polyline_str) > 4
    /\ call.result = call.args.path

-----------------------------------------------------------------------------
(* C16: _interpolate_path(a, b, n) with n >= 1 returns n + 1 points, the   *)
(* first one a, the last one b, and every one between them within the      *)
(* jitter bound of the linear interpolation a + (i/n)(b - a).              *)
C16_EndpointsExact ==
    (call.op = "_interpolate_path" /\ call.args.num_points >= 1) =>
        LET a == call.args.start_coords
            b == call.args.end_coords
            n == call.args.num_points
            path == call.result
        IN  /\ Len(path) = n + 1
            /\ path[1] = a
            /\ path[n + 1] = b
            /\ \A i \in 1..(n - 1) : \A c \in 1..2 :
                   Abs(n * path[i + 1][c] - (n * a[c] + i * (b[c] - a[c])))
                       <= n * JitterBound

-----------------------------------------------------------------------------
(* Reading the record of a weather call *)

\* OpenWeather does not deliver the data of the latest call
WeatherSimulated == ~weather.enabled \/ call.args.kind # "ok"

\* the latest call asks what the kept call asked, in the same hour
SameQuestion(op) ==
    /\ call.op = op
    /\ WeatherSimulated
    /\ seen.op = op
    /\ seen.latitude = call.args.latitude
    /\ seen.longitude = call.args.longitude
    /\ seen.days = Get(call.args, "days", 0)
    /\ seen.hour = hour_now

\* a record without one of its fields
Without(record, field) == [f \in DOMAIN record \ {field} |-> record[f]]

IsTagged(record) ==
    /\ Get(record, "simulated", FALSE) = TRUE
    /\ Get(record, "service", "") = "simulated"

IsFlagged(record) ==
    /\ Get(record, "simulated", FALSE) = TRUE
    /\ "service" \notin DOMAIN record

-----------------------------------------------------------------------------
(* C17 as stated: every simulated output (route, current weather, forecast *)
(* entry, air quality) carries the simulated flag, true, and the provider  *)
(* tag "simulated".                                                        *)
C17_SimulatedTagged ==
    /\ (call.op = "get_optimal_route" /\ NoRouteDelivered)
           => IsTagged(call.result)
    /\ (call.op = "get_current_weather" /\ WeatherSimulated)
           => IsTagged(call.result)
    /\ (call.op = "get_forecast" /\ WeatherSimulated)
           => \A k \in 1..Len(call.result) : IsTagged(call.result[k])
    /\ (call.op = "get_air_quality" /\ WeatherSimulated)
           => IsTagged(call.result)

(* C17 as amended: every simulated output carries the simulated flag,      *)
(* true; the simulated route also carries the provider tag "simulated",    *)
(* and the simulated weather, forecast entries and air quality carry no    *)
(* provider tag.                                                           *)
C17_SimulatedFlagged ==
    /\ (call.op = "get_optimal_route" /\ NoRouteDelivered)
           => IsTagged(call.result)
    /\ (call.op = "get_current_weather" /\ WeatherSimulated)
           => IsFlagged(call.result)
    /\ (call.op = "get_forecast" /\ WeatherSimulated)
           => \A k \in 1..Len(call.result) : IsFlagged(call.result[k])
    /\ (call.op = "get_air_quality" /\ WeatherSimulated)
           => IsFlagged(call.result)

\* OpenWeather times out on a forecast request: a day of simulated entries
C17_Witness ==
    /\ call.op = "get_forecast"
    /\ weather.enabled
    /\ call.args.kind = "timeout"
    /\ Len(call.result) = 8
    /\ IsFlagged(call.result[8])

-----------------------------------------------------------------------------
(* C18 as stated: two simulated get_current_weather calls for the same     *)
(* coordinate in the same hour return identical records, whatever runs     *)
(* between them.                                                           *)
C18_SameHourIdentical ==
    SameQuestion("get_current_weather") => call.result = seen.result

(* C18 as amended: the two records are identical in every field but the    *)
(* timestamp, which is the time of each call.                              *)
C18_SameHourSameValues ==
    SameQuestion("get_current_weather") =>
        /\ Without(call.result, "timestamp") = Without(seen.result, "timestamp")
        /\ call.result.timestamp = isoformat(datetime_now)

\* the second call comes later in the hour and finds the generator in
\* another state than the first call left it in
C18_Witness ==
    /\ SameQuestion("get_current_weather")
    /\ call.args.rng # seen.rng
    /\ call.result.timestamp # seen.result.timestamp
    /\ Without(call.result, "timestamp") = Without(seen.result, "timestamp")

-----------------------------------------------------------------------------
(* C19: two simulated get_air_quality calls, and two simulated             *)
(* get_forecast calls, for the same coordinate in the same hour return the *)
(* same generated values, whatever calls precede them.                     *)
C19_SameHourSameAirAndForecast ==
    /\ SameQuestion("get_air_quality") => call.result = seen.result
    /\ SameQuestion("get_forecast") =>
          /\ Len(call.result) = Len(seen.result)
          /\ \A k \in 1..Len(call.result) :
                Without(call.result[k], "datetime")
                    = Without(seen.result[k], "datetime")

-----------------------------------------------------------------------------
(* C20: every simulated current weather record has humidity and cloudiness *)
(* in 0..100, precipitation >= 0 and wind_direction in 0..359.             *)
C20_WeatherRanges ==
    (call.op = "get_current_weather" /\ WeatherSimulated) =>
        /\ call.result.humidity \in 0..100
        /\ call.result.cloudiness \in 0..100
        /\ call.result.precipitation >= 0
        /\ call.result.wind_direction \in 0..359

-----------------------------------------------------------------------------
(* C21: every route returned by get_optimal_route has the same fields,     *)
(* whichever path produced it: distance, duration, duration_in_traffic,    *)
(* the start and end labels, coordinates, steps, warnings, service and the *)
(* simulated flag.                                                         *)
RouteFields ==
    {"distance", "duration", "duration_in_traffic", "start_address",
     "end_address", "coordinates", "steps", "warnings", "service", "simulated"}

C21_OneSchema ==
    call.op = "get_optimal_route" => RouteFields \subseteq DOMAIN call.result

-----------------------------------------------------------------------------
(* C22: every route returned by get_optimal_route has at least 2           *)
(* coordinates, the routes of accepted provider answers with an empty      *)
(* polyline or an empty geometry included, and the simulated ones.         *)
C22_TwoPoints ==
    call.op = "get_optimal_route" => call.result.coordinates >= 2

-----------------------------------------------------------------------------
(* C23: on every fallback transition, a provider attempt abandoned for the *)
(* next provider or for simulation, in routing, geocoding, reverse         *)
(* geocoding, weather, forecast and air quality, a diagnostic is printed   *)
(* before the fallback result is produced.                                 *)

\* the request at position i of the latest call's trace was abandoned:
\* another request follows it, or the call ended with the simulated result
Abandoned(i) ==
    \/ \E j \in (i + 1)..Len(call.trace) : call.trace[j].ev = "request"
    \/ call.op = "get_optimal_route" /\ IsSimulatedRoute(call.result)
    \/ /\ call.op \in {"get_current_weather", "get_forecast", "get_air_quality"}
       /\ WeatherSimulated

C23_DiagnosticOnFallback ==
    call.op \in {"geocode", "reverse_geocode", "get_optimal_route",
                 "get_current_weather", "get_forecast", "get_air_quality"} =>
        \A i \in 1..Len(call.trace) :
            (call.trace[i].ev = "request" /\ Abandoned(i)) =>
                /\ i < Len(call.trace)
                /\ call.trace[i + 1].ev = "print"

-----------------------------------------------------------------------------
(* C24: find_nearest_responder calls get_optimal_route exactly once per    *)
(* element of responder_locations, in list order, from that responder to   *)
(* the emergency, without early exit and without passing over repeated     *)
(* coordinates: as many route resolutions as responders.                   *)
Resolutions == SelectSeq(call.trace, LAMBDA e : e.ev = "resolve")

C24_OneRoutePerResponder ==
    call.op = "find_nearest_responder" =>
        /\ Len(Resolutions) = Len(call.args)
        /\ \A i \in 1..Len(call.args) :
              /\ Resolutions[i].who = i - 1
              /\ Resolutions[i].info = call.args[i].d
        /\ Len(SelectSeq(call.trace, LAMBDA e : e.ev = "request"))
              = IF routing.enabled /\ routing.service \in {"google", "openroute"}
                THEN Len(call.args) ELSE 0

\* three responders, the first two at the same coordinates and nearest, the
\* third one farther: three resolutions, the first responder returned
C24_Witness ==
    /\ call.op = "find_nearest_responder"
    /\ Len(call.args) = 3
    /\ call.args[1] = call.args[2]
    /\ call.args[3].d > call.args[1].d
    /\ call.result.responder_id = 0
    /\ Len(Resolutions) = 3

-----------------------------------------------------------------------------
(* C25: for every straight-line distance d the path of a simulated route   *)
(* is built with max(5, round(2 d)) segments and has one point more.       *)
C25_SegmentsRounded ==
    (call.op = "get_optimal_route" /\ IsSimulatedRoute(call.result)) =>
        call.result.coordinates = Max(5, Round(2 * call.args.d, PerKm)) + 1

(* C25, as the code has it: the number of segments is max(5, int(2 d)),    *)
(* 2 d with its fraction dropped, and the path has one point more.         *)
C25_SegmentsTruncated ==
    (call.op = "get_optimal_route" /\ IsSimulatedRoute(call.result)) =>
        call.result.coordinates = Max(5, (2 * call.args.d) \div PerKm) + 1

\* a simulated route over a distance with 2 d above 5 and a fraction of a
\* half or more, where rounding and truncation part
C25_Witness ==
    /\ call.op = "get_optimal_route"
    /\ IsSimulatedRoute(call.result)
    /\ (2 * call.args.d) \div PerKm >= 5
    /\ 2 * ((2 * call.args.d) % PerKm) >= PerKm
    /\ call.result.coordinates = ((2 * call.args.d) \div PerKm) + 1

-----------------------------------------------------------------------------
(* C26: no failure of a provider attempt escapes: on a timeout or          *)
(* connection error, a status other than 200, an error status of the       *)
(* provider, an answer with fields missing, or an overview polyline cut    *)
(* short so that _decode_polyline indexes past its end, get_optimal_route, *)
(* get_current_weather, get_forecast and get_air_quality raise nothing and *)
(* return the simulated result.                                            *)
RouteAttemptFails ==
    /\ routing.enabled
    /\ routing.service \in {"google", "openroute"}
    /\ \/ call.args.net.kind # "ok"
       \/ routing.service = "google"
             /\ decode_raises(overview_polyline(call.args.net))

WeatherAttemptFails == weather.enabled /\ call.args.kind # "ok"

C26_NoFailureEscapes ==
    /\ call.op \in {"get_optimal_route", "get_current_weather",
                    "get_air_quality"} => call.result # Raise
    /\ (call.op = "get_optimal_route" /\ RouteAttemptFails) =>
           /\ Len(SelectSeq(call.trace, LAMBDA e : e.ev = "request")) = 1
           /\ call.result.service = "simulated"
           /\ call.result.simulated = TRUE
           /\ call.result.coordinates >= 6
    /\ (call.op = "get_current_weather" /\ WeatherAttemptFails) =>
           /\ Len(SelectSeq(call.trace, LAMBDA e : e.ev = "request")) = 1
           /\ call.result.simulated = TRUE
    /\ (call.op = "get_forecast" /\ WeatherAttemptFails) =>
           /\ Len(SelectSeq(call.trace, LAMBDA e : e.ev = "request")) = 1
           /\ Len(call.result) = 8 * call.args.days
           /\ \A k \in 1..Len(call.result) : call.result[k].simulated = TRUE
    /\ (call.op = "get_air_quality" /\ WeatherAttemptFails) =>
           /\ Len(SelectSeq(call.trace, LAMBDA e : e.ev = "request")) = 1
           /\ call.result.simulated = TRUE

\* Google answers OK with its overview polyline cut short: the IndexError of
\* _decode_polyline is caught, reported, and the simulated route returned
C26_Witness ==
    /\ call.op = "get_optimal_route"
    /\ routing.enabled /\ routing.service = "google"
    /\ call.args.net.kind = "ok"
    /\ call.args.net.cut > 0
    /\ decode_raises(overview_polyline(call.args.net))
    /\ \E i \in 1..Len(call.trace) : call.trace[i].ev = "print"
    /\ call.result.service = "simulated"

-----------------------------------------------------------------------------
(* C27: get_multiple_routes leaves the primary route as get_optimal_route  *)
(* returned it (the first element has its distance, duration,              *)
(* duration_in_traffic, coordinates and steps), and every alternative has  *)
(* the fields of the primary route and route_name, with the values of the  *)
(* primary route in every field but distance, duration and route_name.     *)
PrimaryReturned == get_optimal_route(Call0, call.args.net, call.args.d).result

C27_PrimaryUnchanged ==
    call.op = "get_multiple_routes" =>
        /\ Len(call.result) >= 1
        /\ call.result[1] = PrimaryReturned
        /\ \A i \in 2..Len(call.result) :
              /\ DOMAIN call.result[i] = DOMAIN PrimaryReturned \cup {"route_name"}
              /\ \A k \in DOMAIN PrimaryReturned \ {"distance", "duration"} :
                    call.result[i][k] = PrimaryReturned[k]

\* two alternatives made of a simulated primary route of non-zero length:
\* they are longer, the primary route is as it was returned
C27_Witness ==
    /\ call.op = "get_multiple_routes"
    /\ call.args.n = 3
    /\ call.args.d > 0
    /\ Len(call.result) = 3
    /\ call.result[1] = _get_simulated_route(call.args.d, 0).route
    /\ "route_name" \notin DOMAIN call.result[1]
    /\ call.result[3].distance > call.result[2].distance
    /\ call.result[2].distance > call.result[1].distance
    /\ call.result[3].duration_in_traffic = call.result[1].duration_in_traffic

-----------------------------------------------------------------------------
(* C28: simulated weather and simulated forecast reseed the one generator  *)
(* that route jitter and simulated air quality draw from.  After a         *)
(* simulated get_current_weather the state of the generator is determined  *)
(* by the place and the hour alone, whatever state the call found it in:   *)
(* the air-quality values and the path jitter generated next are the same  *)
(* on every repetition.  The same holds after a forecast of one day or     *)
(* more.                                                                   *)
C28_WeatherFixesGenerator ==
    /\ SameQuestion("get_current_weather") =>
          /\ rng = seen.rng
          /\ _get_simulated_air_quality(rng).result
                = _get_simulated_air_quality(seen.rng).result
          /\ _interpolate_path(<<0 - 40, 1>>, <<1, TUnit + 2>>, 5, rng).path
                = _interpolate_path(<<0 - 40, 1>>, <<1, TUnit + 2>>, 5, seen.rng).path
    /\ (SameQuestion("get_forecast") /\ call.args.days >= 1) =>
          rng = seen.rng

\* the repeated call, later in the hour, found the generator in another
\* state than the first call had left, changed it, and left it as the first call had left it
C28_Witness ==
    /\ SameQuestion("get_current_weather")
    /\ call.result.timestamp # seen.result.timestamp
    /\ call.args.rng # seen.rng
    /\ call.args.rng # rng
    /\ rng = seen.rng

-----------------------------------------------------------------------------
(* C29: with an empty list of responders find_nearest_responder returns    *)
(* None, resolves no route and computes no ETA; with a non-empty list it   *)
(* returns a record with responder_id (the index in the list),             *)
(* coordinates, distance, duration, route and eta, where eta is            *)
(* calculate_eta of the route of the responder selected.                   *)
C29_NoneOnEmptyList ==
    call.op = "find_nearest_responder" =>
        /\ Len(call.args) = 0 =>
              /\ call.result = None
              /\ call.trace = <<>>
        /\ Len(call.args) >= 1 =>
              /\ call.result # None
              /\ call.result # Raise
              /\ DOMAIN call.result = {"responder_id", "coordinates", "distance",
                                       "duration", "route", "eta"}
              /\ call.result.responder_id \in 0..(Len(call.args) - 1)
              /\ call.result.coordinates
                    = call.args[call.result.responder_id + 1].d
              /\ call.result.route
                    = RouteOf(call.args[call.result.responder_id + 1])
              /\ call.result.distance = call.result.route.distance
              /\ call.result.duration = call.result.route.duration
              /\ call.result.eta = calculate_eta(call.result.route, NoTime)

\* no responders, with a provider that would have been asked: nothing is
\* sent and None comes back
C29_Witness ==
    /\ call.op = "find_nearest_responder"
    /\ routing.enabled /\ routing.service = "openroute"
    /\ call.args = <<>>
    /\ call.result = None
    /\ call.trace = <<>>

-----------------------------------------------------------------------------
(* C30: the rate limiter of a GeocodingAPI used by one caller at a time.   *)
(* geocode and reverse_geocode share one timestamp, set once per request   *)
(* before the first provider is contacted: it never goes back; a request   *)
(* enters its provider phase at the timestamp, min_request_interval or     *)
(* more after the previous request did; a request that arrives that long   *)
(* after the previous one does not sleep; the second and the third         *)
(* provider of a request are contacted as soon as the one before has       *)
(* answered (less than min_request_interval later), and the timestamp      *)
(* stays as it was set.                                                    *)
Contacted(trace) == SelectSeq(trace, LAMBDA e : e.ev = "request")

C30_OneTimestampPerRequest ==
    [][/\ geo'.last_request_time >= geo.last_request_time
       /\ call'.op \notin {"geocode", "reverse_geocode"} =>
              geo'.last_request_time = geo.last_request_time
       /\ (call' # call /\ call'.op \in {"geocode", "reverse_geocode"}) =>
              LET reqs == Contacted(call'.trace)
                  entry == geo'.last_request_time
              IN  /\ call'.trace[1].ev = "rate_limit"
                  /\ \A k \in 2..Len(call'.trace) :
                        call'.trace[k].ev # "rate_limit"
                  /\ entry >= now
                  /\ entry - geo.last_request_time >= geo.min_request_interval
                  /\ now - geo.last_request_time >= geo.min_request_interval
                        => entry = now
                  /\ Len(reqs) >= 1
                  /\ lastCall'[reqs[1].who] = entry
                  /\ \A k \in 2..Len(reqs) :
                        /\ lastCall'[reqs[k].who] >= lastCall'[reqs[k - 1].who]
                        /\ lastCall'[reqs[k].who] - lastCall'[reqs[k - 1].who]
                              <= MaxLatency
                        /\ lastCall'[reqs[k].who] - lastCall'[reqs[k - 1].who]
                              < geo.min_request_interval
                  /\ now' >= lastCall'[reqs[Len(reqs)].who]
                  /\ now' - lastCall'[reqs[Len(reqs)].who] <= MaxLatency]_vars

\* Nominatim was contacted by an earlier request; this one entered its
\* provider phase min_request_interval after that, contacted Google at the
\* timestamp and OpenCage later, and the timestamp stayed as it was set
C30_Witness ==
    /\ call.op \in {"geocode", "reverse_geocode"}
    /\ Len(Requests) = 2
    /\ lastCall["nominatim"] # Never
    /\ geo.last_request_time - lastCall["nominatim"] = geo.min_request_interval
    /\ lastCall["google"] = geo.last_request_time
    /\ lastCall["opencage"] > geo.last_request_time
    /\ now >= lastCall["opencage"]

====
